---- MODULE Spec2Model ----
(***************************************************************************)
(* A model of the chess engine of src/chess_engine.py: the static          *)
(* evaluator, the move orderer, the transposition table, the quiescence    *)
(* search, the alpha-beta search and its drivers (the UCI loop, the        *)
(* self-play loop and direct calls of the functions).                      *)
(*                                                                         *)
(* The rules of chess live in the python-chess library, which is not part  *)
(* of the repository.  The model tabulates the library's answers for a     *)
(* bounded game (Positions): a finite set of positions, each with its      *)
(* piece placement, side to move, in-check flag and list of legal moves    *)
(* in generator order, each move with the position it leads to.  Nothing   *)
(* of the engine is tabulated: every value the engine computes is computed *)
(* here from those answers the way the code computes it.                   *)
(*                                                                         *)
(* No position of the bounded game recurs along a line of play, so a       *)
(* repetition claim never arises in it, and the half-move clock is not     *)
(* modelled.                                                               *)
(***************************************************************************)
EXTENDS Integers, Sequences, FiniteSets, TLC

VARIABLES chess, mode, game_board, TT, alive, out, sp, match, calls, last

vars == <<chess, mode, game_board, TT, alive, out, sp, match, calls, last>>

(***************************************************************************)
(* Program constants.                                                      *)
(***************************************************************************)
TEMPO_BONUS == 10
BISHOP_PAIR_BONUS == 30
ROOK_SAME_FILE_BONUS == 12
ROOK_SAME_RANK_BONUS == 12
OPEN_FILE_BONUS == 20
SEMI_OPEN_FILE_BONUS == 10
DOUBLED_PAWN_PENALTY == 10
ISOLATED_PAWN_PENALTY == 8

\* The score of a checkmate (lines 121 and 328).
MATE == 99999

\* math.inf: a value above every score; -Inf is -math.inf.
Inf == 1000000

\* The capacity of the table.  The source sets 200000; the model keeps the
\* constant and scales its value down so that the table fills.
MAX_TT_SIZE == 3

EXACT == 0
LOWER == 1
UPPER == 2

WHITE == TRUE
BLACK == FALSE

PIECE_TYPES == <<"P", "N", "B", "R", "K", "Q">>

PIECE_VALUES == [P |-> 100, N |-> 320, B |-> 330, R |-> 500, Q |-> 900, K |-> 0]

PASSED_PAWN_BONUS_BY_RANK == <<0, 5, 10, 20, 35, 60, 100, 0>>

PAWN_TABLE == <<
     0,  0,  0,  0,  0,  0,  0,  0,
     5, 10, 10,-20,-20, 10, 10,  5,
     5, -5,-10,  0,  0,-10, -5,  5,
     0,  0,  0, 20, 20,  0,  0,  0,
     5,  5, 10, 25, 25, 10,  5,  5,
    10, 10, 20, 30, 30, 20, 10, 10,
    50, 50, 50, 50, 50, 50, 50, 50,
     0,  0,  0,  0,  0,  0,  0,  0 >>

KNIGHT_TABLE == <<
    -50,-40,-30,-30,-30,-30,-40,-50,
    -40,-20,  0,  5,  5,  0,-20,-40,
    -30,  5, 10, 15, 15, 10,  5,-30,
    -30,  0, 15, 20, 20, 15,  0,-30,
    -30,  5, 15, 20, 20, 15,  5,-30,
    -30,  0, 10, 15, 15, 10,  0,-30,
    -40,-20,  0,  0,  0,  0,-20,-40,
    -50,-40,-30,-30,-30,-30,-40,-50 >>

BISHOP_TABLE == <<
    -20,-10,-10,-10,-10,-10,-10,-20,
    -10,  5,  0,  0,  0,  0,  5,-10,
    -10, 10, 10, 10, 10, 10, 10,-10,
    -10,  0, 10, 10, 10, 10,  0,-10,
    -10,  5,  5, 10, 10,  5,  5,-10,
    -10,  0,  5, 10, 10,  5,  0,-10,
    -10,  0,  0,  0,  0,  0,  0,-10,
    -20,-10,-10,-10,-10,-10,-10,-20 >>

ROOK_TABLE == <<
     0,  0,  0,  5,  5,  0,  0,  0,
    -5,  0,  0,  0,  0,  0,  0, -5,
    -5,  0,  0,  0,  0,  0,  0, -5,
    -5,  0,  0,  0,  0,  0,  0, -5,
    -5,  0,  0,  0,  0,  0,  0, -5,
    -5,  0,  0,  0,  0,  0,  0, -5,
     5, 10, 10, 10, 10, 10, 10,  5,
     0,  0,  0,  0,  0,  0,  0,  0 >>

KING_TABLE == <<
     20, 35, 10,  0,  0, 10, 35, 20,
     20, 20,  0,  0,  0,  0, 20, 20,
    -10,-20,-20,-20,-20,-20,-20,-10,
    -20,-30,-30,-40,-40,-30,-30,-20,
    -30,-40,-40,-50,-50,-40,-40,-30,
    -30,-40,-40,-50,-50,-40,-40,-30,
    -30,-40,-40,-50,-50,-40,-40,-30,
    -30,-40,-40,-50,-50,-40,-40,-30 >>

QUEEN_TABLE == <<
    -20,-10,-10, -5, -5,-10,-10,-20,
    -10,  0,  5,  0,  0,  0,  0,-10,
    -10,  5,  5,  5,  5,  5,  0,-10,
      0,  0,  5,  5,  5,  5,  0, -5,
     -5,  0,  5,  5,  5,  5,  0, -5,
    -10,  0,  5,  5,  5,  5,  0,-10,
    -10,  0,  0,  0,  0,  0,  0,-10,
    -20,-10,-10, -5, -5,-10,-10,-20 >>

\* A table is indexed by square, 0 = a1 .. 63 = h8; a sequence starts at 1.
PST == [P |-> PAWN_TABLE, N |-> KNIGHT_TABLE, B |-> BISHOP_TABLE,
        R |-> ROOK_TABLE, K |-> KING_TABLE, Q |-> QUEEN_TABLE]

(***************************************************************************)
(* The board library, tabulated.                                           *)
(*                                                                         *)
(* A square is 8 * rank + file.  A placement maps the occupied squares to  *)
(* piece letters, upper case for White.  A move is the record python-chess *)
(* compares structurally: from_square, to_square, promotion.               *)
(***************************************************************************)
NoMove == [from_square |-> -1, to_square |-> -1, promotion |-> "-"]

\* The null move, printed as 0000.
NullMove == [from_square |-> 0, to_square |-> 0, promotion |-> "-"]

\* One legal move of a position with the library's answers about it: the
\* position it leads to, whether it is an en-passant capture, whether it gives
\* check, and, once made, whether its target square is attacked by the
\* opponent and by the mover.
Legal(f, t, pr, nx, chk, oa, ma) ==
    [mv |-> [from_square |-> f, to_square |-> t, promotion |-> pr], next |-> nx,
     ep |-> FALSE, chk |-> chk, opp_att |-> oa, own_att |-> ma]

Plain(f, t, nx) == Legal(f, t, "-", nx, FALSE, FALSE, FALSE)

Moved(at, f, t) ==
    [s \in (DOMAIN at \ {f}) \cup {t} |-> IF s = t THEN at[f] ELSE at[s]]

Promoted(at, f, t, letter) ==
    [s \in (DOMAIN at \ {f}) \cup {t} |-> IF s = t THEN letter ELSE at[s]]

Node(at, turn, check, moves) ==
    [at |-> at, turn |-> turn, check |-> check, moves |-> moves]

StartAt ==
    [s \in (0..15) \cup (48..63) |->
        IF s \in 8..15 THEN "P"
        ELSE IF s \in 48..55 THEN "p"
        ELSE IF s < 8 THEN <<"R", "N", "B", "Q", "K", "B", "N", "R">>[s + 1]
        ELSE <<"r", "n", "b", "q", "k", "b", "n", "r">>[s - 55]]

(***************************************************************************)
(* The bounded game.                                                       *)
(*   0..10   the standard start, 1.e4 e5 reached in two plies and, by      *)
(*           1.e3 e6 2.e4 e5, in four; then 2.Qh5 Nc6 3.Bc4 Nf6 4.Qxf7#    *)
(*   11..19  king and queen against king: a mate in one, a stalemating     *)
(*           move, a check and a queen check that hangs the queen          *)
(*   20..25, 31, 32  king and rook each: the rooks come off to bare kings  *)
(*   26..27  a position whose only legal move is a hanging check           *)
(*   28..30  a pawn that promotes with mate                                *)
(*   33..40  king and rook each: a king move and a rook move in either     *)
(*           order reach the same position in the same number of plies     *)
(*   41..44  king and queen against king and rook: a quiet queen move      *)
(*           that mates, and a capture with check that loses the queen     *)
(*   45..49  king and bishop against king and pawn, the king in check      *)
(*           from the pawn: it steps aside or takes the pawn               *)
(*   50..52  7k/8/6P1/8/8/8/2q5/K7 w: the king has no square and the one   *)
(*           legal move, g6-g7+, is a check that hangs the pawn; after     *)
(*           Kxg7 White is stalemated                                      *)
(***************************************************************************)
Positions ==
    LET a0  == StartAt
        a1  == Moved(a0, 12, 28)
        a2  == Moved(a1, 52, 36)
        a3  == Moved(a0, 12, 20)
        a4  == Moved(a3, 52, 44)
        a5  == Moved(a4, 20, 28)
        a6  == Moved(a2, 3, 39)
        a7  == Moved(a6, 57, 42)
        a8  == Moved(a7, 5, 26)
        a9  == Moved(a8, 62, 45)
        a10 == Moved(a9, 39, 53)
        a11 == (46 :> "K" @@ 26 :> "Q" @@ 63 :> "k")
        a12 == Moved(a11, 26, 62)
        a13 == Moved(a11, 26, 53)
        a14 == Moved(a11, 26, 58)
        a15 == Moved(a11, 26, 18)
        a16 == Moved(a12, 63, 62)
        a17 == Moved(a15, 63, 62)
        a18 == Moved(a17, 18, 58)
        a19 == Moved(a17, 18, 54)
        a20 == (2 :> "K" @@ 3 :> "R" @@ 58 :> "k" @@ 59 :> "r")
        a21 == Moved(a20, 3, 59)
        a22 == Moved(a21, 58, 59)
        a23 == Moved(a20, 3, 11)
        a24 == Moved(a23, 59, 11)
        a25 == Moved(a24, 2, 11)
        a26 == (46 :> "K" @@ 17 :> "Q" @@ 63 :> "k")
        a27 == Moved(a26, 17, 62)
        a28 == (41 :> "K" @@ 50 :> "P" @@ 56 :> "k")
        a29 == Promoted(a28, 50, 58, "Q")
        a30 == Promoted(a28, 50, 58, "R")
        a31 == Moved(a23, 58, 50)
        a32 == Moved(a31, 11, 59)
        a33 == (1 :> "K" @@ 11 :> "R" @@ 57 :> "k" @@ 59 :> "r")
        a34 == Moved(a33, 1, 2)
        a35 == Moved(a34, 57, 58)
        a36 == Moved(a33, 11, 3)
        a37 == Moved(a36, 57, 58)
        a39 == Moved(a20, 59, 3)
        a40 == Moved(a39, 2, 3)
        a41 == (46 :> "K" @@ 52 :> "Q" @@ 62 :> "k" @@ 61 :> "r")
        a42 == Moved(a41, 52, 55)
        a43 == Moved(a41, 52, 61)
        a44 == Moved(a43, 62, 61)
        a45 == (6 :> "K" @@ 19 :> "B" @@ 62 :> "k" @@ 15 :> "p")
        a46 == Moved(a45, 6, 7)
        a47 == Moved(a45, 6, 15)
        a48 == Moved(a46, 62, 54)
        a49 == Moved(a48, 7, 15)
        a50 == (0 :> "K" @@ 46 :> "P" @@ 63 :> "k" @@ 10 :> "q")
        a51 == Moved(a50, 46, 54)
        a52 == Moved(a51, 63, 54)
    IN  0  :> Node(a0, WHITE, FALSE, <<Plain(12, 28, 1), Plain(12, 20, 3)>>)
     @@ 1  :> Node(a1, BLACK, FALSE, <<Plain(52, 36, 2)>>)
     @@ 2  :> Node(a2, WHITE, FALSE, <<Plain(3, 39, 6)>>)
     @@ 3  :> Node(a3, BLACK, FALSE, <<Plain(52, 44, 4)>>)
     @@ 4  :> Node(a4, WHITE, FALSE, <<Plain(20, 28, 5)>>)
     @@ 5  :> Node(a5, BLACK, FALSE, <<Plain(44, 36, 2)>>)
     @@ 6  :> Node(a6, BLACK, FALSE, <<Plain(57, 42, 7)>>)
     @@ 7  :> Node(a7, WHITE, FALSE, <<Plain(5, 26, 8)>>)
     @@ 8  :> Node(a8, BLACK, FALSE, <<Plain(62, 45, 9)>>)
     @@ 9  :> Node(a9, WHITE, FALSE,
                   <<Legal(39, 53, "-", 10, TRUE, FALSE, TRUE)>>)
     @@ 10 :> Node(a10, BLACK, TRUE, <<>>)
     @@ 11 :> Node(a11, WHITE, FALSE,
                   <<Legal(26, 62, "-", 12, TRUE, TRUE, FALSE),
                     Plain(26, 53, 13),
                     Legal(26, 58, "-", 14, TRUE, FALSE, FALSE),
                     Legal(26, 18, "-", 15, TRUE, FALSE, FALSE)>>)
     @@ 12 :> Node(a12, BLACK, TRUE, <<Plain(63, 62, 16)>>)
     @@ 13 :> Node(a13, BLACK, FALSE, <<>>)
     @@ 14 :> Node(a14, BLACK, TRUE, <<>>)
     @@ 15 :> Node(a15, BLACK, TRUE, <<Plain(63, 62, 17)>>)
     @@ 16 :> Node(a16, WHITE, FALSE, <<>>)
     @@ 17 :> Node(a17, WHITE, FALSE,
                   <<Legal(18, 58, "-", 18, TRUE, FALSE, FALSE),
                     Legal(18, 54, "-", 19, TRUE, TRUE, TRUE)>>)
     @@ 18 :> Node(a18, BLACK, TRUE, <<>>)
     @@ 19 :> Node(a19, BLACK, TRUE, <<>>)
     @@ 20 :> Node(a20, WHITE, FALSE,
                   <<Legal(3, 59, "-", 21, TRUE, TRUE, FALSE), Plain(3, 11, 23)>>)
     @@ 21 :> Node(a21, BLACK, TRUE, <<Plain(58, 59, 22)>>)
     @@ 22 :> Node(a22, WHITE, FALSE, <<>>)
     @@ 23 :> Node(a23, BLACK, FALSE, <<Plain(59, 11, 24), Plain(58, 50, 31)>>)
     @@ 24 :> Node(a24, WHITE, FALSE, <<Plain(2, 11, 25)>>)
     @@ 25 :> Node(a25, BLACK, FALSE, <<>>)
     @@ 26 :> Node(a26, WHITE, FALSE,
                   <<Legal(17, 62, "-", 27, TRUE, TRUE, FALSE)>>)
     @@ 27 :> Node(a27, BLACK, TRUE, <<Plain(63, 62, 16)>>)
     @@ 28 :> Node(a28, WHITE, FALSE,
                   <<Legal(50, 58, "Q", 29, TRUE, FALSE, FALSE),
                     Legal(50, 58, "R", 30, TRUE, FALSE, FALSE)>>)
     @@ 29 :> Node(a29, BLACK, TRUE, <<>>)
     @@ 30 :> Node(a30, BLACK, TRUE, <<>>)
     @@ 31 :> Node(a31, WHITE, FALSE, <<Plain(11, 59, 32)>>)
     @@ 32 :> Node(a32, BLACK, FALSE, <<Plain(50, 59, 22)>>)
     @@ 33 :> Node(a33, WHITE, FALSE, <<Plain(1, 2, 34), Plain(11, 3, 36)>>)
     @@ 34 :> Node(a34, BLACK, FALSE, <<Plain(57, 58, 35)>>)
     @@ 35 :> Node(a35, WHITE, FALSE, <<Plain(11, 3, 38)>>)
     @@ 36 :> Node(a36, BLACK, FALSE, <<Plain(57, 58, 37)>>)
     @@ 37 :> Node(a37, WHITE, FALSE, <<Plain(1, 2, 38)>>)
     @@ 38 :> Node(a20, BLACK, FALSE, <<Legal(59, 3, "-", 39, TRUE, TRUE, FALSE)>>)
     @@ 39 :> Node(a39, WHITE, TRUE, <<Plain(2, 3, 40)>>)
     @@ 40 :> Node(a40, BLACK, FALSE, <<>>)
     @@ 41 :> Node(a41, WHITE, FALSE,
                   <<Legal(52, 55, "-", 42, TRUE, TRUE, TRUE),
                     Legal(52, 61, "-", 43, TRUE, TRUE, FALSE)>>)
     @@ 42 :> Node(a42, BLACK, TRUE, <<>>)
     @@ 43 :> Node(a43, BLACK, TRUE, <<Plain(62, 61, 44)>>)
     @@ 44 :> Node(a44, WHITE, FALSE, <<>>)
     @@ 45 :> Node(a45, WHITE, TRUE, <<Plain(6, 7, 46), Plain(6, 15, 47)>>)
     @@ 46 :> Node(a46, BLACK, FALSE, <<Plain(62, 54, 48)>>)
     @@ 47 :> Node(a47, BLACK, FALSE, <<>>)
     @@ 48 :> Node(a48, WHITE, FALSE, <<Plain(7, 15, 49)>>)
     @@ 49 :> Node(a49, BLACK, FALSE, <<>>)
     @@ 50 :> Node(a50, WHITE, FALSE,
                   <<Legal(46, 54, "-", 51, TRUE, TRUE, FALSE)>>)
     @@ 51 :> Node(a51, BLACK, TRUE, <<Plain(63, 54, 52)>>)
     @@ 52 :> Node(a52, WHITE, FALSE, <<>>)

Pos == DOMAIN Positions

\* chess.Board(): the standard start.
StartPos == 0

\* A board is the current position and the move stack: each pushed move with
\* the position it was made in.
NewBoard(p) == [pos |-> p, stack |-> <<>>]

B(board) == chess[board.pos]

turn(board) == B(board).turn

legal_moves(board) == B(board).moves

IsLegal(board, m) == \E i \in DOMAIN legal_moves(board) : legal_moves(board)[i].mv = m

\* Where a move outside the tabulated game leads: a position in which the
\* game is over.
Elsewhere == CHOOSE p \in DOMAIN chess : chess[p].moves = <<>> /\ ~chess[p].check

\* The library's answers about move m in this position.  The library answers
\* for any move, legal or not: a move outside the tabulated game captures what
\* stands on its target square, gives no check and leaves the lines of play.
LegalEntry(board, m) ==
    LET L == legal_moves(board)
    IN  IF IsLegal(board, m)
        THEN L[CHOOSE i \in DOMAIN L : L[i].mv = m]
        ELSE [mv |-> m, next |-> Elsewhere, ep |-> FALSE, chk |-> FALSE,
              opp_att |-> FALSE, own_att |-> FALSE]

push(board, m) ==
    [pos |-> LegalEntry(board, m).next,
     stack |-> Append(board.stack, [mv |-> m, prev |-> board.pos])]

pop(board) ==
    [pos |-> board.stack[Len(board.stack)].prev,
     stack |-> SubSeq(board.stack, 1, Len(board.stack) - 1)]

zobrist_hash(board) == board.pos

TypeOf == [P |-> "P", N |-> "N", B |-> "B", R |-> "R", Q |-> "Q", K |-> "K",
           p |-> "P", n |-> "N", b |-> "B", r |-> "R", q |-> "Q", k |-> "K"]

ColorOf == [P |-> WHITE, N |-> WHITE, B |-> WHITE, R |-> WHITE, Q |-> WHITE, K |-> WHITE,
            p |-> BLACK, n |-> BLACK, b |-> BLACK, r |-> BLACK, q |-> BLACK, k |-> BLACK]

\* board.pieces(piece_type, color): the squares holding such a piece.
pieces(board, piece_type, color) ==
    LET at == B(board).at
    IN  {s \in DOMAIN at : TypeOf[at[s]] = piece_type /\ ColorOf[at[s]] = color}

\* board.piece_type_at(square); "-" is None.
piece_type_at(board, sq) ==
    LET at == B(board).at
    IN  IF sq \in DOMAIN at THEN TypeOf[at[sq]] ELSE "-"

is_en_passant(board, m) == LegalEntry(board, m).ep

is_capture(board, m) ==
    LET at == B(board).at
    IN  \/ m.to_square \in DOMAIN at /\ ColorOf[at[m.to_square]] # turn(board)
        \/ is_en_passant(board, m)

gives_check(board, m) == LegalEntry(board, m).chk

is_check(board) == B(board).check

\* board.is_attacked_by(color, square), asked of the square the last pushed
\* move went to.
is_attacked_by(board, color, sq) ==
    LET top == board.stack[Len(board.stack)]
        e == LegalEntry(NewBoard(top.prev), top.mv)
    IN  /\ sq = top.mv.to_square
        /\ IF color = turn(board) THEN e.opp_att ELSE e.own_att

is_checkmate(board) == is_check(board) /\ legal_moves(board) = <<>>

is_stalemate(board) == ~is_check(board) /\ legal_moves(board) = <<>>

\* Neither side can mate: bare kings, or one minor piece on the board.
is_insufficient_material(board) ==
    LET at == B(board).at
        others == {s \in DOMAIN at : TypeOf[at[s]] # "K"}
    IN  /\ \A s \in others : TypeOf[at[s]] \in {"N", "B"}
        /\ Cardinality(others) <= 1

\* How often the current position has stood on the board, this time included.
Occurrences(board) ==
    1 + Cardinality({i \in DOMAIN board.stack : board.stack[i].prev = board.pos})

can_claim_threefold_repetition(board) == Occurrences(board) >= 3

\* board.is_game_over() with claim_draw = False.
is_game_over(board) ==
    \/ is_checkmate(board)
    \/ is_stalemate(board)
    \/ is_insufficient_material(board)
    \/ Occurrences(board) >= 5

square_file(sq) == sq % 8

square_rank(sq) == sq \div 8

square(f, r) == 8 * r + f

square_mirror(sq) == square(square_file(sq), 7 - square_rank(sq))

RECURSIVE Sum(_)
Sum(f) ==
    IF DOMAIN f = {} THEN 0
    ELSE LET x == CHOOSE x \in DOMAIN f : TRUE
         IN  f[x] + Sum([y \in DOMAIN f \ {x} |-> f[y]])

(***************************************************************************)
(* The static evaluator.                                                   *)
(***************************************************************************)
Sign(color) == IF color = WHITE THEN 1 ELSE -1

\* A faulty variant of the score below: the table of a black piece is read at
\* the square it stands on.
MaterialScoreUnmirrored(board) ==
    Sum([i \in DOMAIN PIECE_TYPES |->
        Sum([sq \in pieces(board, PIECE_TYPES[i], WHITE) |->
                PIECE_VALUES[PIECE_TYPES[i]] + PST[PIECE_TYPES[i]][sq + 1]])
      - Sum([sq \in pieces(board, PIECE_TYPES[i], BLACK) |->
                PIECE_VALUES[PIECE_TYPES[i]] + PST[PIECE_TYPES[i]][sq + 1]])])

\* Lines 128-136: material and piece-square tables.
MaterialScore(board) ==
    Sum([i \in DOMAIN PIECE_TYPES |->
        LET t == PIECE_TYPES[i]
        IN  Sum([sq \in pieces(board, t, WHITE) |-> PIECE_VALUES[t] + PST[t][sq + 1]])
          - Sum([sq \in pieces(board, t, BLACK) |->
                    PIECE_VALUES[t] + PST[t][square_mirror(sq) + 1]])])

\* Lines 140-143.
BishopPairScore(board) ==
      (IF Cardinality(pieces(board, "B", WHITE)) >= 2 THEN BISHOP_PAIR_BONUS ELSE 0)
    - (IF Cardinality(pieces(board, "B", BLACK)) >= 2 THEN BISHOP_PAIR_BONUS ELSE 0)

\* Lines 147-167, one colour.
RookScore(board, color) ==
    LET rooks == pieces(board, "R", color)
        files == {square_file(sq) : sq \in rooks}
        ranks == {square_rank(sq) : sq \in rooks}
        my_pawn_files == {square_file(sq) : sq \in pieces(board, "P", color)}
        opp_pawn_files == {square_file(sq) : sq \in pieces(board, "P", ~color)}
    IN    (IF Cardinality(rooks) >= 2 /\ Cardinality(files) < Cardinality(rooks)
           THEN ROOK_SAME_FILE_BONUS ELSE 0)
        + (IF Cardinality(rooks) >= 2 /\ Cardinality(ranks) < Cardinality(rooks)
           THEN ROOK_SAME_RANK_BONUS ELSE 0)
        + Sum([sq \in rooks |->
                IF square_file(sq) \notin my_pawn_files
                   /\ square_file(sq) \notin opp_pawn_files
                THEN OPEN_FILE_BONUS
                ELSE IF square_file(sq) \notin my_pawn_files
                THEN SEMI_OPEN_FILE_BONUS
                ELSE 0])

\* Lines 195-213: no enemy pawn ahead on the file or a neighbouring one.
is_passed(board, color, sq) ==
    LET f == square_file(sq)
        r == square_rank(sq)
        ahead_ranks == IF color = WHITE THEN (r + 1)..7 ELSE 0..(r - 1)
    IN  \A rr \in ahead_ranks : \A ff \in {f - 1, f, f + 1} :
            (0 <= ff /\ ff <= 7) => square(ff, rr) \notin pieces(board, "P", ~color)

\* Lines 171-213, one colour.
PawnScore(board, color) ==
    LET pawns == pieces(board, "P", color)
        my_pawn_files == {square_file(sq) : sq \in pawns}
        cnt(f) == Cardinality({sq \in pawns : square_file(sq) = f})
    IN  - Sum([f \in my_pawn_files |->
                IF cnt(f) > 1 THEN DOUBLED_PAWN_PENALTY * (cnt(f) - 1) ELSE 0])
        - Sum([sq \in pawns |->
                IF (square_file(sq) - 1) \notin my_pawn_files
                   /\ (square_file(sq) + 1) \notin my_pawn_files
                THEN ISOLATED_PAWN_PENALTY ELSE 0])
        + Sum([sq \in pawns |->
                IF is_passed(board, color, sq)
                THEN PASSED_PAWN_BONUS_BY_RANK[
                        (IF color = WHITE THEN square_rank(sq)
                         ELSE 7 - square_rank(sq)) + 1]
                ELSE 0])

\* A centipawn score from White's point of view.
evaluate(board) ==
    IF is_checkmate(board) THEN (IF turn(board) THEN -MATE ELSE MATE)
    ELSE IF \/ is_stalemate(board)
            \/ is_insufficient_material(board)
            \/ can_claim_threefold_repetition(board)
    THEN 0
    ELSE  MaterialScore(board)
        + BishopPairScore(board)
        + Sign(WHITE) * RookScore(board, WHITE) + Sign(BLACK) * RookScore(board, BLACK)
        + Sign(WHITE) * PawnScore(board, WHITE) + Sign(BLACK) * PawnScore(board, BLACK)

\* A faulty variant of the function below: the score stays White's.
eval_to_play_from_white(board) == evaluate(board) + Sign(turn(board)) * TEMPO_BONUS

\* Lines 218-221: the tempo bonus added, then seen from the side to move.
eval_to_play(board) ==
    Sign(turn(board)) * (evaluate(board) + Sign(turn(board)) * TEMPO_BONUS)

(***************************************************************************)
(* The transposition table: a Python dict, which keeps its keys in the     *)
(* order of their first insertion.  Here a sequence of entries, oldest     *)
(* first, at most one per key.                                             *)
(***************************************************************************)
Entry(key, score, depth, flag, move) ==
    [key |-> key, score |-> score, depth |-> depth, flag |-> flag, move |-> move]

HasKey(tt, key) == \E i \in DOMAIN tt : tt[i].key = key

\* TT.get(key), for a key the table holds.
Get(tt, key) == tt[CHOOSE i \in DOMAIN tt : tt[i].key = key]

\* The result of a probe: None, or a score.
Miss == [hit |-> FALSE, score |-> 0]

Hit(score) == [hit |-> TRUE, score |-> score]

\* A faulty variant of tt_probe below: the result is tested for truth, so a
\* stored score of 0 is reported as a miss.
tt_probe_zero_miss(tt, board, depth, alpha, beta) ==
    IF ~HasKey(tt, zobrist_hash(board)) THEN Miss
    ELSE IF Get(tt, zobrist_hash(board)).depth < depth THEN Miss
    ELSE IF Get(tt, zobrist_hash(board)).score = 0 THEN Miss
    ELSE IF Get(tt, zobrist_hash(board)).flag = EXACT
    THEN Hit(Get(tt, zobrist_hash(board)).score)
    ELSE IF /\ Get(tt, zobrist_hash(board)).flag = LOWER
            /\ Get(tt, zobrist_hash(board)).score >= beta
    THEN Hit(Get(tt, zobrist_hash(board)).score)
    ELSE IF /\ Get(tt, zobrist_hash(board)).flag = UPPER
            /\ Get(tt, zobrist_hash(board)).score <= alpha
    THEN Hit(Get(tt, zobrist_hash(board)).score)
    ELSE Miss

\* Lines 286-301.
tt_probe(tt, board, depth, alpha, beta) ==
    LET key == zobrist_hash(board)
    IN  IF ~HasKey(tt, key) THEN Miss
        ELSE LET entry == Get(tt, key)
             IN  IF entry.depth < depth THEN Miss
                 ELSE IF entry.flag = EXACT THEN Hit(entry.score)
                 ELSE IF entry.flag = LOWER /\ entry.score >= beta THEN Hit(entry.score)
                 ELSE IF entry.flag = UPPER /\ entry.score <= alpha THEN Hit(entry.score)
                 ELSE Miss

\* Lines 305-309.
FlagOf(score, alpha0, beta) ==
    IF score <= alpha0 THEN UPPER
    ELSE IF score >= beta THEN LOWER
    ELSE EXACT

\* A faulty variant of tt_store below: a full table is not made room in.
tt_store_no_evict(tt, board, depth, score, alpha0, beta, best_move) ==
    IF HasKey(tt, zobrist_hash(board))
    THEN IF depth >= Get(tt, zobrist_hash(board)).depth
         THEN [i \in DOMAIN tt |->
                 IF tt[i].key = zobrist_hash(board)
                 THEN Entry(zobrist_hash(board), score, depth, FlagOf(score, alpha0, beta),
                            best_move)
                 ELSE tt[i]]
         ELSE tt
    ELSE Append(tt, Entry(zobrist_hash(board), score, depth, FlagOf(score, alpha0, beta),
                          best_move))

\* A faulty variant of tt_store below: an entry is overwritten whatever its
\* depth.
tt_store_always(tt, board, depth, score, alpha0, beta, best_move) ==
    IF HasKey(tt, zobrist_hash(board))
    THEN [i \in DOMAIN tt |->
            IF tt[i].key = zobrist_hash(board)
            THEN Entry(zobrist_hash(board), score, depth, FlagOf(score, alpha0, beta),
                       best_move)
            ELSE tt[i]]
    ELSE IF Len(tt) >= MAX_TT_SIZE
         THEN Append(Tail(tt), Entry(zobrist_hash(board), score, depth,
                                     FlagOf(score, alpha0, beta), best_move))
         ELSE Append(tt, Entry(zobrist_hash(board), score, depth,
                               FlagOf(score, alpha0, beta), best_move))

\* A faulty variant of tt_store below: an overwritten key is taken out and put
\* in again as the newest.
tt_store_renewing(tt, board, depth, score, alpha0, beta, best_move) ==
    IF HasKey(tt, zobrist_hash(board))
    THEN IF depth >= Get(tt, zobrist_hash(board)).depth
         THEN Append(SelectSeq(tt, LAMBDA e : e.key # zobrist_hash(board)),
                     Entry(zobrist_hash(board), score, depth, FlagOf(score, alpha0, beta),
                           best_move))
         ELSE tt
    ELSE IF Len(tt) >= MAX_TT_SIZE
         THEN Append(Tail(tt), Entry(zobrist_hash(board), score, depth,
                                     FlagOf(score, alpha0, beta), best_move))
         ELSE Append(tt, Entry(zobrist_hash(board), score, depth,
                               FlagOf(score, alpha0, beta), best_move))

\* Lines 303-320.
tt_store(tt, board, depth, score, alpha0, beta, best_move) ==
    LET key == zobrist_hash(board)
        new == Entry(key, score, depth, FlagOf(score, alpha0, beta), best_move)
    IN  IF HasKey(tt, key)
        THEN IF depth >= Get(tt, key).depth
             THEN [i \in DOMAIN tt |-> IF tt[i].key = key THEN new ELSE tt[i]]
             ELSE tt
        ELSE IF Len(tt) >= MAX_TT_SIZE
             THEN Append(Tail(tt), new)
             ELSE Append(tt, new)

(***************************************************************************)
(* The state a call works on and hands back: the board it was lent, the    *)
(* table, and a record of what happened during the call (the events met,   *)
(* the stores search made, the lowest depth search was entered with).      *)
(* Each step of a function hands its result to the operator that models    *)
(* the rest of the function.                                               *)
(***************************************************************************)
State(board, tt) ==
    [board |-> board, TT |-> tt, ev |-> {}, log |-> {}, qlog |-> {}, low |-> Inf]

Ret(value, st) == [ret |-> value, st |-> st]

Note(st, e) == [st EXCEPT !.ev = @ \cup {e}]

Push(st, m) == [st EXCEPT !.board = push(@, m)]

Pop(st) == [st EXCEPT !.board = pop(@)]

Larger(a, b) == IF a > b THEN a ELSE b

\* What qsearch did at a node, kept for the properties: the board it was
\* called on and the move it recursed on ("reply" in check, "tactical"
\* otherwise), or no move and "stand_pat" where it took the static value.
QNote(st, m, kind) ==
    [st EXCEPT !.qlog = @ \cup {[board |-> st.board, mv |-> m, kind |-> kind]}]

(***************************************************************************)
(* Move ordering.                                                          *)
(***************************************************************************)
\* Lines 230-231: the move of the table's entry for this position, if any.
tt_move_of(tt, board) ==
    IF HasKey(tt, zobrist_hash(board)) THEN Get(tt, zobrist_hash(board)).move ELSE NoMove

\* A faulty variant of the candidates below: the table's move is tried first
\* without asking whether it is legal here.
CandidatesWithTableMove(tt, board) ==
    IF tt_move_of(tt, board) # NoMove
    THEN <<LegalEntry(board, tt_move_of(tt, board))>> \o legal_moves(board)
    ELSE legal_moves(board)

\* Line 237: the moves the orderer looks at.
Candidates(tt, board) == legal_moves(board)

\* Lines 241-246: the most valuable victim by the least valuable attacker.
MvvLva(victim, attacker) ==
    IF victim # "-"
    THEN 10000 + PIECE_VALUES[victim] - PIECE_VALUES[attacker] ELSE 0

\* Lines 238-256: the heuristic score of a move.
MoveScore(board, m, tt_move) ==
      (IF is_capture(board, m)
       THEN MvvLva(IF piece_type_at(board, m.to_square) = "-" /\ is_en_passant(board, m)
                   THEN "P" ELSE piece_type_at(board, m.to_square),
                   piece_type_at(board, m.from_square))
       ELSE 0)
    + (IF m.promotion # "-" THEN 5000 + PIECE_VALUES[m.promotion] ELSE 0)
    + (IF tt_move # NoMove /\ m = tt_move THEN 5000 ELSE 0)
    + (IF gives_check(board, m) THEN 50 ELSE 0)

\* Line 263, on the board with the move made: the side to move attacks
\* the target square and the side that moved does not.
Hanging(board, sq) ==
    /\ is_attacked_by(board, turn(board), sq)
    /\ ~is_attacked_by(board, ~turn(board), sq)

\* A faulty variant of the look below: the move is not taken back.
LookedAndLeft(s1, m) == Ret(Hanging(s1.board, m.to_square), s1)

\* Lines 260-264: look at the target square, take the move back.
Looked(s1, m) == Ret(Hanging(s1.board, m.to_square), Pop(s1))

\* Lines 259-264: make the move, look, take it back.
HangingProbe(st, m) == Looked(Push(st, m), m)

\* Line 270: a stable sort, highest score first.
RECURSIVE SortedInsert(_, _)
SortedInsert(sorted, item) ==
    IF sorted = <<>> THEN <<item>>
    ELSE IF sorted[1].score >= item.score
         THEN <<sorted[1]>> \o SortedInsert(Tail(sorted), item)
         ELSE <<item>> \o sorted

RECURSIVE StableSort(_, _)
StableSort(items, i) ==
    IF i = 0 THEN <<>> ELSE SortedInsert(StableSort(items, i - 1), items[i])

\* A faulty variant of the filter below: a checking move left hanging is
\* kept like any other move.
FilteredNever(probe, item) == [keep |-> TRUE, item |-> item, st |-> probe.st]

\* Lines 265-266: a checking move left hanging is dropped.
Filtered(probe, item) ==
    IF probe.ret
    THEN [keep |-> FALSE, item |-> item, st |-> Note(probe.st, "hanging")]
    ELSE [keep |-> TRUE, item |-> item, st |-> probe.st]

\* Lines 238-268: one move of the loop.
Scored(st, m, tt_move) ==
    IF gives_check(st.board, m) /\ ~is_capture(st.board, m) /\ m.promotion = "-"
    THEN Filtered(HangingProbe(st, m), [score |-> MoveScore(st.board, m, tt_move), mv |-> m])
    ELSE [keep |-> TRUE, item |-> [score |-> MoveScore(st.board, m, tt_move), mv |-> m],
          st |-> st]

RECURSIVE ScoreMoves(_, _, _, _, _)

\* Line 268 and on to the next move.
ScoreRest(r, cands, i, tt_move, moves) ==
    ScoreMoves(r.st, cands, i + 1, tt_move, IF r.keep THEN Append(moves, r.item) ELSE moves)

\* Lines 237-268: the loop over the legal moves, from the i-th on.
ScoreMoves(st, cands, i, tt_move, moves) ==
    IF i > Len(cands) THEN Ret(moves, st)
    ELSE ScoreRest(Scored(st, cands[i].mv, tt_move), cands, i, tt_move, moves)

MovesOf(sorted) == [i \in DOMAIN sorted |-> sorted[i].mv]

\* A faulty variant of the return below: the orderer notes its first move in
\* the table.
SortMovesAndStore(scored) ==
    Ret(MovesOf(StableSort(scored.ret, Len(scored.ret))),
        [scored.st EXCEPT
            !.TT = tt_store(@, scored.st.board, 0, 0, -Inf, Inf,
                            IF scored.ret = <<>> THEN NoMove
                            ELSE StableSort(scored.ret, Len(scored.ret))[1].mv)])

\* Lines 270-277.
SortMoves(scored) == Ret(MovesOf(StableSort(scored.ret, Len(scored.ret))), scored.st)

ordered_moves(st) ==
    SortMoves(ScoreMoves(st, Candidates(st.TT, st.board), 1,
                         tt_move_of(st.TT, st.board), <<>>))

(***************************************************************************)
(* Quiescence search.                                                      *)
(***************************************************************************)
\* The state a caller receives with a returned value: a value outside
\* [-MATE, MATE] (an infinity of the window that came back as a score) is noted.
Seen(r) == IF r.ret < -MATE \/ r.ret > MATE THEN Note(r.st, "escaped") ELSE r.st

RECURSIVE qsearch(_, _, _)
RECURSIVE QCheckLoop(_, _, _, _, _, _)
RECURSIVE QLoop(_, _, _, _, _)

\* Lines 337-343: after the recursive call on a reply to a check.
QCheckStep(r, moves, i, alpha, beta, best) ==
    IF -r.ret >= beta THEN Ret(beta, Note(Pop(Seen(r)), "q_fail_high"))
    ELSE QCheckLoop(Pop(Seen(r)), moves, i + 1, Larger(-r.ret, alpha), beta,
                    Larger(-r.ret, best))

\* Lines 334-344: in check, every legal reply.
QCheckLoop(st, moves, i, alpha, beta, best) ==
    IF i > Len(moves) THEN Ret(best, st)
    ELSE QCheckStep(qsearch(Push(QNote(st, moves[i].mv, "reply"), moves[i].mv),
                            -beta, -alpha),
                    moves, i, alpha, beta, best)

\* Lines 357-361: after the recursive call on a capture or promotion.
QStep(r, moves, i, alpha, beta) ==
    IF -r.ret >= beta THEN Ret(beta, Note(Pop(Seen(r)), "q_fail_high"))
    ELSE QLoop(Pop(Seen(r)), moves, i + 1, Larger(-r.ret, alpha), beta)

\* Lines 352-363: captures and promotions only.
QLoop(st, moves, i, alpha, beta) ==
    IF i > Len(moves) THEN Ret(alpha, st)
    ELSE IF ~(is_capture(st.board, moves[i]) \/ moves[i].promotion # "-")
    THEN QLoop(st, moves, i + 1, alpha, beta)
    ELSE QStep(qsearch(Push(QNote(st, moves[i], "tactical"), moves[i]), -beta, -alpha),
               moves, i, alpha, beta)

\* Line 352: the loop runs over the ordered moves.
QCaptures(om, alpha, beta) == QLoop(om.st, om.ret, 1, alpha, beta)

\* A faulty variant of the test below: the static value itself is returned
\* when it is at or above beta.
StandPatFailSoft(st, stand_pat, alpha, beta) ==
    IF stand_pat >= beta THEN Ret(stand_pat, Note(st, "stand_pat_fail_high"))
    ELSE QCaptures(ordered_moves(st), Larger(stand_pat, alpha), beta)

\* Lines 346-363: not in check.
StandPat(st, stand_pat, alpha, beta) ==
    IF stand_pat >= beta THEN Ret(beta, Note(st, "stand_pat_fail_high"))
    ELSE QCaptures(ordered_moves(st), Larger(stand_pat, alpha), beta)

qsearch(st, alpha, beta) ==
    IF is_checkmate(st.board) THEN Ret(-MATE, Note(st, "terminal"))
    ELSE IF \/ is_stalemate(st.board)
            \/ is_insufficient_material(st.board)
            \/ can_claim_threefold_repetition(st.board)
    THEN Ret(0, Note(st, "terminal"))
    ELSE IF is_check(st.board)
    THEN QCheckLoop(Note(st, "q_in_check"), legal_moves(st.board), 1, alpha, beta, -Inf)
    ELSE StandPat(QNote(st, NoMove, "stand_pat"), eval_to_play(st.board), alpha, beta)

(***************************************************************************)
(* Alpha-beta search.                                                      *)
(***************************************************************************)
RECURSIVE search(_, _, _, _)
RECURSIVE SearchLoop(_, _, _, _, _, _, _, _)

\* A faulty variant of the choice below: the alpha raised by the move loop.
RaisedAlpha(alpha0, alpha) == alpha

\* Line 404: the alpha handed to tt_store is the alpha the node was entered with.
StoredAlpha(alpha0, alpha) == alpha0

\* Lines 398-399: the cut-off test.
SearchCut(s1, moves, i, depth, alpha1, beta, best1, move1) ==
    IF alpha1 >= beta
    THEN [best |-> best1, best_move |-> move1, alpha |-> alpha1,
          st |-> Note(s1, IF i < Len(moves) THEN "cutoff_prunes" ELSE "cutoff")]
    ELSE SearchLoop(s1, moves, i + 1, depth, alpha1, beta, best1, move1)

\* A faulty variant of the step below: the score of the child is not negated.
SearchStepSameSign(r, moves, i, depth, alpha, beta, best, best_move) ==
    SearchCut(Pop(Seen(r)), moves, i, depth, Larger(Larger(r.ret, best), alpha), beta,
              Larger(r.ret, best), IF r.ret > best THEN moves[i] ELSE best_move)

\* Lines 391-397: after the recursive call on a move.
SearchStep(r, moves, i, depth, alpha, beta, best, best_move) ==
    SearchCut(Pop(Seen(r)), moves, i, depth, Larger(Larger(-r.ret, best), alpha), beta,
              Larger(-r.ret, best), IF -r.ret > best THEN moves[i] ELSE best_move)

\* Lines 388-399: the move loop; the result is best, best_move, the raised
\* alpha and the state.
SearchLoop(st, moves, i, depth, alpha, beta, best, best_move) ==
    IF i > Len(moves)
    THEN [best |-> best, best_move |-> best_move, alpha |-> alpha, st |-> st]
    ELSE SearchStep(search(Push(st, moves[i]), depth - 1, -beta, -alpha), moves, i, depth,
                    alpha, beta, best, best_move)

\* What the stored entry of this node became: its flag, or -1 when the table
\* kept a deeper entry.
FlagWritten(tt1, key, depth, best, move) ==
    IF /\ HasKey(tt1, key)
       /\ Get(tt1, key).depth = depth
       /\ Get(tt1, key).score = best
       /\ Get(tt1, key).move = move
    THEN Get(tt1, key).flag ELSE -1

\* Lines 404-406: the table after the store, and the return.
Stored(loop, best, tt1, depth, alpha, beta) ==
    Ret(best,
        [loop.st EXCEPT
            !.TT = tt1,
            !.ev = IF loop.best = -Inf THEN @ \cup {"fallback"} ELSE @,
            !.log = @ \cup {[key |-> zobrist_hash(loop.st.board), depth |-> depth,
                             score |-> best, alpha |-> alpha, beta |-> beta,
                             flag |-> FlagWritten(tt1, zobrist_hash(loop.st.board), depth,
                                                  best, loop.best_move)]}])

\* Line 404.
SearchStore(loop, best, depth, alpha0, beta) ==
    Stored(loop, best,
           tt_store(loop.st.TT, loop.st.board, depth, best, StoredAlpha(alpha0, loop.alpha),
                    beta, loop.best_move),
           depth, alpha0, beta)

\* A faulty variant of the end of the node below: best is stored and returned
\* as the loop left it, -inf included.
SearchDoneKeepingInf(loop, depth, alpha0, beta) ==
    SearchStore(loop, loop.best, depth, alpha0, beta)

\* Lines 401-402: no move was searched.
SearchDone(loop, depth, alpha0, beta) ==
    SearchStore(loop, IF loop.best = -Inf THEN eval_to_play(loop.st.board) ELSE loop.best,
                depth, alpha0, beta)

\* Lines 384-399.
SearchMoves(om, depth, alpha, beta) ==
    SearchDone(SearchLoop(om.st, om.ret, 1, depth, alpha, beta, -Inf, NoMove),
               depth, alpha, beta)

\* Lines 378-380: a usable entry ends the node.
SearchProbed(s0, cached, depth, alpha, beta) ==
    IF cached.hit
    THEN Ret(cached.score,
             Note(s0, IF Get(s0.TT, zobrist_hash(s0.board)).depth > depth
                      THEN "tt_hit_deeper" ELSE "tt_hit"))
    ELSE SearchMoves(ordered_moves(s0), depth, alpha, beta)

\* The lowest depth search was entered with.
Entered(st, depth) == [st EXCEPT !.low = IF depth < @ THEN depth ELSE @]

search(st, depth, alpha, beta) ==
    IF depth = 0 \/ is_game_over(st.board) THEN qsearch(Entered(st, depth), alpha, beta)
    ELSE SearchProbed(Entered(st, depth), tt_probe(st.TT, st.board, depth, alpha, beta),
                      depth, alpha, beta)

RECURSIVE RootLoop(_, _, _, _, _, _, _)

\* Lines 418-423: after the search of a root move.
RootStep(r, moves, i, depth, alpha, best, best_score) ==
    RootLoop(Pop(Seen(r)), moves, i + 1, depth, Larger(-r.ret, alpha),
             IF -r.ret > best_score THEN moves[i] ELSE best,
             Larger(-r.ret, best_score))

\* Lines 415-423: the root loop, which has no cut-off.
RootLoop(st, moves, i, depth, alpha, best, best_score) ==
    IF i > Len(moves) THEN Ret([move |-> best, score |-> best_score], st)
    ELSE RootStep(search(Push(st, moves[i]), depth - 1, -Inf, -alpha), moves, i, depth,
                  alpha, best, best_score)

RootMoves(om, depth) == RootLoop(om.st, om.ret, 1, depth, -Inf, NoMove, -Inf)

\* The best move at the root and its score; NoMove is None.
best_move(st, depth) == RootMoves(ordered_moves(st), depth)

\* Line 435.
FromWhite(r) == Ret(IF turn(r.st.board) = WHITE THEN r.ret ELSE -r.ret, r.st)

\* Lines 430-435.
white_eval_after_move(st, depth_white, depth_black) ==
    FromWhite(search(st, IF turn(st.board) = WHITE THEN depth_white ELSE depth_black,
                     -Inf, Inf))

(***************************************************************************)
(* Bounds of the model.                                                    *)
(***************************************************************************)
\* The deepest search a direct call asks for.
MaxDepth == 5

\* The deepest search a go command or a self-play game asks for.
MaxGoDepth == 1

\* The most moves a position command lists.
MaxMoves == 1

\* The most searches the commands or calls of one run make.
MaxCalls == 2

\* The most games a self-play run plays.
MaxGames == 2

(***************************************************************************)
(* What the last command or call was and what it did: its arguments, what  *)
(* it returned, the table and the board as they were before it, and the    *)
(* record the call kept (State).                                           *)
(***************************************************************************)
DidOn(op, args, ret, board, st) ==
    [op |-> op, args |-> args, ret |-> ret, before |-> TT, board0 |-> board,
     board1 |-> st.board, ev |-> st.ev, log |-> st.log, qlog |-> st.qlog,
     low |-> st.low]

Did(op, args, ret, st) == DidOn(op, args, ret, game_board, st)

Idle == State(game_board, TT)

(***************************************************************************)
(* The UCI loop.  A line is the sequence of its words.  A word is a        *)
(* keyword or another text, an integer, a move in long algebraic notation, *)
(* or the six fields of a FEN taken as one word.                           *)
(***************************************************************************)
Word(w) == [w |-> w, n |-> 0, m |-> NoMove, p |-> -1]

Number(n) == [w |-> "<int>", n |-> n, m |-> NoMove, p |-> -1]

MoveWord(m) == [w |-> "<move>", n |-> 0, m |-> m, p |-> -1]

FenWord(p) == [w |-> "<fen>", n |-> 0, m |-> NoMove, p |-> p]

\* The positions a position command names by FEN: one with a mate in one, and
\* two whose only legal move the orderer drops (in the second the move is the
\* only legal move on the real board too).
FenInputs == {11, 26, 50}

\* A move no position of the game allows.
BadMove == [from_square |-> 32, to_square |-> 33, promotion |-> "-"]

\* The move lists a position command gives for position p: lines of play of
\* at most n moves, and the same ending in a move that is not legal.
RECURSIVE MoveLists(_, _)
MoveLists(p, n) ==
    {<<>>} \cup
    (IF n = 0 THEN {}
     ELSE {<<MoveWord(BadMove)>>} \cup
          UNION {{<<MoveWord(chess[p].moves[i].mv)>> \o rest :
                    rest \in MoveLists(chess[p].moves[i].next, n - 1)} :
                 i \in DOMAIN chess[p].moves})

WithMoves(head, p) ==
    {head} \cup {head \o <<Word("moves")>> \o ms : ms \in MoveLists(p, MaxMoves) \ {<<>>}}

\* The lines the loop reads.
Lines ==
    {<<Word("uci")>>, <<Word("isready")>>, <<Word("ucinewgame")>>, <<Word("quit")>>,
     <<Word("stop")>>, <<Word("gopher")>>, <<Word("positions"), Word("startpos")>>,
     <<Word("position")>>, <<Word("go")>>, <<Word("go"), Word("depth")>>,
     <<Word("go"), Word("depth"), Word("deep")>>}
    \cup {<<Word("go"), Word("depth"), Number(d)>> : d \in 0..MaxGoDepth}
    \cup WithMoves(<<Word("position"), Word("startpos")>>, StartPos)
    \cup {<<Word("position"), Word("fen")>>}
    \cup {<<Word("position"), Word("fen"), FenWord(p)>> : p \in FenInputs}

\* str.startswith, for the first words of Lines.
StartsWith(w, prefix) ==
    \/ w = prefix
    \/ <<w, prefix>> \in {<<"ucinewgame", "uci">>, <<"gopher", "go">>,
                           <<"positions", "position">>}

Has(parts, w) == \E i \in DOMAIN parts : parts[i] = Word(w)

\* parts.index(w)
IndexOf(parts, w) ==
    CHOOSE i \in DOMAIN parts : parts[i] = Word(w) /\ \A j \in 1..(i - 1) : parts[j] # Word(w)

\* Lines 576-623: the branch a line takes.
Dispatch(line) ==
    IF line = <<Word("uci")>> THEN "uci"
    ELSE IF line = <<Word("isready")>> THEN "isready"
    ELSE IF StartsWith(line[1].w, "ucinewgame") THEN "ucinewgame"
    ELSE IF StartsWith(line[1].w, "position") THEN "position"
    ELSE IF StartsWith(line[1].w, "go") THEN "go"
    ELSE IF line = <<Word("quit")>> THEN "quit"
    ELSE "ignored"

\* board.push_uci for each word from the i-th on; an illegal or unparsable
\* move raises, with the moves before it made.
RECURSIVE PushAll(_, _, _)
PushAll(board, parts, i) ==
    IF i > Len(parts) THEN [board |-> board, raised |-> FALSE]
    ELSE IF parts[i].w = "<move>" /\ IsLegal(board, parts[i].m)
    THEN PushAll(push(board, parts[i].m), parts, i + 1)
    ELSE [board |-> board, raised |-> TRUE]

\* Lines 591-605.
SetPosition(board, parts) ==
    IF Has(parts, "startpos")
    THEN LET idx == IndexOf(parts, "startpos") + 1
         IN  IF idx <= Len(parts) /\ parts[idx] = Word("moves")
             THEN PushAll(NewBoard(StartPos), parts, idx + 1)
             ELSE [board |-> NewBoard(StartPos), raised |-> FALSE]
    ELSE IF Has(parts, "fen")
    THEN LET fen_index == IndexOf(parts, "fen") + 1
         IN  IF fen_index > Len(parts) \/ parts[fen_index].w # "<fen>"
             THEN [board |-> board, raised |-> TRUE]
             ELSE IF fen_index + 1 <= Len(parts) /\ parts[fen_index + 1] = Word("moves")
             THEN PushAll(NewBoard(parts[fen_index].p), parts, fen_index + 2)
             ELSE [board |-> NewBoard(parts[fen_index].p), raised |-> FALSE]
    ELSE [board |-> board, raised |-> FALSE]

\* Lines 608-614.
GoDepth(parts) ==
    IF Has(parts, "depth")
       /\ IndexOf(parts, "depth") + 1 <= Len(parts)
       /\ parts[IndexOf(parts, "depth") + 1].w = "<int>"
    THEN parts[IndexOf(parts, "depth") + 1].n
    ELSE 3

\* A faulty variant of the line below: no move is printed as it is.
BestMoveLineOfNone(move) == [text |-> "bestmove", m |-> move]

\* move.uci(), kept as the move; 0000 is the null move.
BestMoveLine(move) == [text |-> "bestmove", m |-> IF move = NoMove THEN NullMove ELSE move]

Text(t) == [text |-> t, m |-> NoMove]

Reading == mode = "uci" /\ alive

Uci ==
    /\ Reading
    /\ \E line \in Lines :
        /\ Dispatch(line) = "uci"
        /\ out' = <<Text("id name Max's Engine"), Text("id author Massimo Revelli"),
                    Text("uciok")>>
        /\ last' = Did("uci", line, 0, Idle)
    /\ UNCHANGED <<chess, match, mode, game_board, TT, alive, sp, calls>>

IsReady ==
    /\ Reading
    /\ \E line \in Lines :
        /\ Dispatch(line) = "isready"
        /\ out' = <<Text("readyok")>>
        /\ last' = Did("isready", line, 0, Idle)
    /\ UNCHANGED <<chess, match, mode, game_board, TT, alive, sp, calls>>

\* A faulty variant of the clearing below: the table is kept.
KeptTable == TT

\* Lines 586-588.
ClearedTable == <<>>

UciNewGame ==
    /\ Reading
    /\ \E line \in Lines :
        /\ Dispatch(line) = "ucinewgame"
        /\ TT' = ClearedTable
        /\ game_board' = NewBoard(StartPos)
        /\ out' = <<>>
        /\ last' = Did("ucinewgame", line, 0, Idle)
    /\ UNCHANGED <<chess, match, mode, alive, sp, calls>>

Position ==
    /\ Reading
    /\ \E line \in Lines :
        /\ Dispatch(line) = "position"
        /\ LET r == SetPosition(game_board, line)
           IN  /\ game_board' = r.board
               /\ alive' = ~r.raised
               /\ last' = Did("position", line, r.raised, Idle)
        /\ out' = <<>>
    /\ UNCHANGED <<chess, match, mode, TT, sp, calls>>

\* Lines 615-620: the answer to a go command.
Went(r, depth) ==
    \E line \in Lines :
        /\ Dispatch(line) = "go"
        /\ GoDepth(line) = depth
        /\ TT' = r.st.TT
        /\ game_board' = r.st.board
        /\ out' = <<BestMoveLine(r.ret.move)>>
        /\ last' = Did("go", [line |-> line, depth |-> depth], r.ret, r.st)

Go ==
    /\ Reading
    /\ calls < MaxCalls
    /\ \E depth \in {GoDepth(line) : line \in {l \in Lines : Dispatch(l) = "go"}} :
        Went(best_move(Idle, depth), depth)
    /\ calls' = calls + 1
    /\ UNCHANGED <<chess, match, mode, alive, sp>>

Quit ==
    /\ Reading
    /\ \E line \in Lines :
        /\ Dispatch(line) = "quit"
        /\ last' = Did("quit", line, 0, Idle)
    /\ alive' = FALSE
    /\ out' = <<>>
    /\ UNCHANGED <<chess, match, mode, game_board, TT, sp, calls>>

\* Line 572: the end of the input.
EndOfInput ==
    /\ Reading
    /\ alive' = FALSE
    /\ out' = <<>>
    /\ last' = Did("eof", <<>>, 0, Idle)
    /\ UNCHANGED <<chess, match, mode, game_board, TT, sp, calls>>

Ignored ==
    /\ Reading
    /\ \E line \in Lines :
        /\ Dispatch(line) = "ignored"
        /\ last' = Did("ignored", line, 0, Idle)
    /\ out' = <<>>
    /\ UNCHANGED <<chess, match, mode, game_board, TT, alive, sp, calls>>

(***************************************************************************)
(* The self-play loop.                                                     *)
(***************************************************************************)
\* board.result(): the winner of a checkmate, a draw for any other end.
result(board) ==
    IF is_checkmate(board) THEN (IF turn(board) = WHITE THEN "0-1" ELSE "1-0")
    ELSE IF is_game_over(board) THEN "1/2-1/2"
    ELSE "*"

\* Line 538.
GameResult(board) == IF is_game_over(board) THEN result(board) ELSE "1/2-1/2"

\* Lines 498-512: a game begins.
SelfPlayStart ==
    /\ mode = "selfplay"
    /\ ~sp.in_game
    /\ sp.game_index < sp.n_games
    /\ game_board' = NewBoard(StartPos)
    /\ TT' = <<>>
    /\ sp' = [sp EXCEPT !.game_index = @ + 1, !.ply = 0, !.in_game = TRUE, !.result = "*"]
    /\ last' = Did("selfplay_start", <<>>, 0, Idle)
    /\ UNCHANGED <<chess, match, mode, alive, out, calls>>

\* Lines 527-536: the move is made and the position evaluated.
MoveMade(r, e, depth) ==
    /\ TT' = e.st.TT
    /\ game_board' = e.st.board
    /\ sp' = [sp EXCEPT !.ply = @ + 1]
    /\ last' = Did("selfplay_ply", [depth |-> depth, ply |-> sp.ply], r.ret, e.st)

\* Lines 520-536: after the search for a move.
Played(r, depth) ==
    IF r.ret.move = NoMove
    THEN /\ TT' = r.st.TT
         /\ game_board' = r.st.board
         /\ sp' = [sp EXCEPT !.in_game = FALSE, !.result = GameResult(r.st.board)]
         /\ last' = Did("selfplay_ply", [depth |-> depth, ply |-> sp.ply], r.ret, r.st)
    ELSE MoveMade(r, white_eval_after_move([r.st EXCEPT !.board = push(@, r.ret.move)],
                                         sp.depth_white, sp.depth_black), depth)

\* Line 518.
DepthToPlay == IF turn(game_board) = WHITE THEN sp.depth_white ELSE sp.depth_black

\* Lines 514-536: one turn of the game loop.
SelfPlayPly ==
    /\ mode = "selfplay"
    /\ sp.in_game
    /\ ~is_game_over(game_board)
    /\ sp.ply < sp.ply_limit
    /\ Played(best_move(Idle, DepthToPlay), DepthToPlay)
    /\ UNCHANGED <<chess, match, mode, alive, out, calls>>

\* Lines 538-547: the game is over or the ply limit is reached.
SelfPlayEnd ==
    /\ mode = "selfplay"
    /\ sp.in_game
    /\ is_game_over(game_board) \/ sp.ply >= sp.ply_limit
    /\ sp' = [sp EXCEPT !.in_game = FALSE, !.result = GameResult(game_board)]
    /\ last' = Did("selfplay_end", <<>>, 0, Idle)
    /\ UNCHANGED <<chess, match, mode, game_board, TT, alive, out, calls>>

\* The match harness before its first game: no game played, both engines
\* running, every tally 0.
NoMatch ==
    [i |-> 0, in_game |-> FALSE, white |-> "-", Result |-> "*", Termination |-> "-",
     dead |-> {}, max_white_wins |-> 0, max_white_draws |-> 0, max_white_losses |-> 0,
     max_black_wins |-> 0, max_black_draws |-> 0, max_black_losses |-> 0]

NoGame == [game_index |-> 0, n_games |-> 0, depth_white |-> 0, depth_black |-> 0,
           ply_limit |-> 0, ply |-> 0, in_game |-> FALSE, result |-> "*"]

Started(op) == [op |-> op, args |-> <<>>, ret |-> 0, before |-> <<>>,
                board0 |-> NewBoard(StartPos), board1 |-> NewBoard(StartPos),
                ev |-> {}, log |-> {}, qlog |-> {}, low |-> Inf]

(***************************************************************************)
(* The engine as a program: the UCI loop, or a self-play run with the      *)
(* depths, the number of games and the ply limit of its environment.       *)
(***************************************************************************)
Init ==
    /\ match = NoMatch
    /\ chess = Positions
    /\ mode \in {"uci", "selfplay"}
    /\ game_board = NewBoard(StartPos)
    /\ TT = <<>>
    /\ alive = TRUE
    /\ out = <<>>
    /\ calls = 0
    /\ last = Started("start")
    /\ IF mode = "selfplay"
       THEN sp \in {[NoGame EXCEPT !.n_games = n, !.depth_white = dw, !.depth_black = db,
                                   !.ply_limit = pl] :
                     n \in 1..MaxGames, dw \in 0..MaxGoDepth, db \in 0..MaxGoDepth,
                     pl \in {2, 300}}
       ELSE sp = NoGame

Next ==
    \/ Uci
    \/ IsReady
    \/ UciNewGame
    \/ Position
    \/ Go
    \/ Quit
    \/ EndOfInput
    \/ Ignored
    \/ SelfPlayStart
    \/ SelfPlayPly
    \/ SelfPlayEnd

Spec == Init /\ [][Next]_vars

(***************************************************************************)
(* The engine as a module: its functions called directly, one call after   *)
(* another on the one table, each on a board of the caller's choosing.     *)
(***************************************************************************)
\* The boards handed to the calls: fresh ones, and one with a move made.
ApiBoards ==
    {NewBoard(p) : p \in {0, 11, 20, 26, 28, 33, 41, 45}}
    \cup {push(NewBoard(StartPos), chess[StartPos].moves[1].mv)}

\* The windows of the direct calls: the full one and a narrow one.
Windows == {[alpha |-> -Inf, beta |-> Inf], [alpha |-> -50, beta |-> 50]}

\* What a direct tt_store call puts under a board's key: an entry deeper than
\* the searches to come, with an exact score, a bound, a move that is not
\* legal there, or no move.
Seeds ==
    {[depth |-> MaxDepth + 1, score |-> 0, alpha0 |-> -Inf, beta |-> Inf, move |-> BadMove],
     [depth |-> 1, score |-> 60, alpha0 |-> -50, beta |-> 50, move |-> NoMove]}

Calling == mode = "api" /\ calls < MaxCalls

Called(op, args, ret, board, st) ==
    /\ TT' = st.TT
    /\ game_board' = st.board
    /\ last' = DidOn(op, args, ret, board, st)
    /\ calls' = calls + 1
    /\ UNCHANGED <<chess, match, mode, alive, out, sp>>

Returned(op, args, r, board) == Called(op, args, r.ret, board, r.st)

CallSearch ==
    /\ Calling
    /\ \E board \in ApiBoards, depth \in 0..MaxDepth, w \in Windows :
        Returned("search", [depth |-> depth, alpha |-> w.alpha, beta |-> w.beta],
                 search(State(board, TT), depth, w.alpha, w.beta), board)

CallBestMove ==
    /\ Calling
    /\ \E board \in ApiBoards, depth \in 0..MaxDepth :
        Returned("best_move", [depth |-> depth], best_move(State(board, TT), depth), board)

CallQsearch ==
    /\ Calling
    /\ \E board \in ApiBoards, w \in Windows :
        Returned("qsearch", [alpha |-> w.alpha, beta |-> w.beta],
                 qsearch(State(board, TT), w.alpha, w.beta), board)

CallOrderedMoves ==
    /\ Calling
    /\ \E board \in ApiBoards :
        Returned("ordered_moves", <<>>, ordered_moves(State(board, TT)), board)

CallWhiteEval ==
    /\ Calling
    /\ \E board \in ApiBoards, depth_white \in 1..MaxGoDepth :
        Returned("white_eval_after_move",
                 [depth_white |-> depth_white, depth_black |-> MaxGoDepth],
                 white_eval_after_move(State(board, TT), depth_white, MaxGoDepth), board)

CallStore ==
    /\ Calling
    /\ \E board \in ApiBoards, e \in Seeds :
        Called("tt_store", e, 0, board,
               [State(board, TT) EXCEPT
                   !.TT = tt_store(TT, board, e.depth, e.score, e.alpha0, e.beta, e.move)])

InitApi ==
    /\ match = NoMatch
    /\ chess = Positions
    /\ mode = "api"
    /\ game_board = NewBoard(StartPos)
    /\ TT = <<>>
    /\ alive = TRUE
    /\ out = <<>>
    /\ calls = 0
    /\ sp = NoGame
    /\ last = Started("start")

NextApi ==
    \/ CallSearch
    \/ CallBestMove
    \/ CallQsearch
    \/ CallOrderedMoves
    \/ CallWhiteEval
    \/ CallStore

SpecApi == InitApi /\ [][NextApi]_vars

(***************************************************************************)
(* The table on its own: any sequence of stores and probes.                *)
(***************************************************************************)
\* The positions whose keys are stored: one more than the table holds.
TTKeys == 0..MAX_TT_SIZE

\* The stores, against the window (-5, 5): an exact score of 0 at depth 1
\* with no move, and at depth 2 a score below the window or above it with a
\* move.
StoreCalls ==
    {[depth |-> 1, score |-> 0, alpha0 |-> -5, beta |-> 5, move |-> NoMove]}
    \cup {[depth |-> 2, score |-> sc, alpha0 |-> -5, beta |-> 5, move |-> BadMove] :
            sc \in {-10, 10}}

\* The probes: at the stored depths, with a window the stored bounds lie
\* outside of and one they lie inside of.
ProbeCalls ==
    {[depth |-> d, alpha |-> w[1], beta |-> w[2]] :
        d \in 1..2, w \in {<<-5, 5>>, <<-20, 20>>}}

\* The entry of the table under a key, as a table of its own.
Under(tt, key) == SelectSeq(tt, LAMBDA e : e.key = key)

\* A call of a table function: what was asked under which board's key, the
\* answer, what the table held under that key before the call (the whole
\* table for a probe) and whether it was full.
TableCall(op, args, ret, board) ==
    [Started(op) EXCEPT
        !.args = args, !.ret = ret, !.board0 = board, !.board1 = board,
        !.before = IF op = "tt_probe" THEN TT ELSE Under(TT, zobrist_hash(board)),
        !.ev = IF Len(TT) >= MAX_TT_SIZE THEN {"full"} ELSE {}]

Store ==
    /\ mode = "tt"
    /\ \E p \in TTKeys, e \in StoreCalls :
        /\ TT' = tt_store(TT, NewBoard(p), e.depth, e.score, e.alpha0, e.beta, e.move)
        /\ last' = TableCall("tt_store", e, 0, NewBoard(p))
    /\ UNCHANGED <<chess, match, mode, game_board, alive, out, sp, calls>>

Probe ==
    /\ mode = "tt"
    /\ \E p \in TTKeys, c \in ProbeCalls :
        /\ last' = TableCall("tt_probe", c,
                             tt_probe(TT, NewBoard(p), c.depth, c.alpha, c.beta), NewBoard(p))
        /\ TT' = TT
    /\ UNCHANGED <<chess, match, mode, game_board, alive, out, sp, calls>>

InitTT ==
    /\ match = NoMatch
    /\ chess = Positions
    /\ mode = "tt"
    /\ game_board = NewBoard(StartPos)
    /\ TT = <<>>
    /\ alive = TRUE
    /\ out = <<>>
    /\ calls = 0
    /\ sp = NoGame
    /\ last = Started("start")

NextTT ==
    \/ Store
    \/ Probe

SpecTT == InitTT /\ [][NextTT]_vars

(***************************************************************************)
(* The properties.                                                         *)
(***************************************************************************)
Best(S) == CHOOSE x \in S : \A y \in S : y <= x

\* The reference of C1: negamax to the given depth with no pruning and no
\* table, over the moves ordered_moves lists, every node at depth 0 or with
\* the game over valued by qsearch on the full window, and a node with no
\* move to search by its static value.
RECURSIVE negamax(_, _)
negamax(board, depth) ==
    IF depth = 0 \/ is_game_over(board) THEN qsearch(State(board, <<>>), -Inf, Inf).ret
    ELSE LET moves == ordered_moves(State(board, <<>>)).ret
         IN  IF moves = <<>> THEN eval_to_play(board)
             ELSE Best({-negamax(push(board, moves[i]), depth - 1) : i \in DOMAIN moves})

\* The last call was search on an empty table, to a depth of at least 1, with
\* the full window.
FullSearch ==
    /\ last.op = "search"
    /\ last.before = <<>>
    /\ last.args.depth >= 1
    /\ last.args.alpha = -Inf
    /\ last.args.beta = Inf

C2_BestMoveIsLegal ==
    (last.op = "best_move" /\ last.args.depth >= 1 /\ last.ret.move # NoMove)
        => IsLegal(last.board0, last.ret.move)

\* best_move returned a move for a position whose table entry names a move
\* that is not legal there.
C2_Witness ==
    /\ last.op = "best_move"
    /\ last.args.depth >= 1
    /\ last.ret.move # NoMove
    /\ tt_move_of(last.before, last.board0) = BadMove
    /\ IsLegal(last.board0, last.ret.move)

\* C3 as stated: on every path of best_move and search called with a depth
\* >= 0 the remaining depth reaches the depth == 0 test and never goes
\* negative.
C3_DepthNeverNegative ==
    (last.op \in {"go", "selfplay_ply"} /\ last.args.depth >= 0) => last.low >= 0

\* C4: when best_move, search, qsearch or ordered_moves returns, the board it
\* was called on has the move stack, and stands in the position, it had when
\* the call began.
C4_BoardRestored ==
    last.op \in {"best_move", "search", "qsearch", "ordered_moves"}
        => last.board1 = last.board0

\* A call that dropped a checking move left hanging, was answered from the
\* table at a node and met a finished game, and returned with the board as it
\* was.
C4_Witness ==
    /\ last.op \in {"best_move", "search"}
    /\ {"hanging", "terminal", "tt_hit"} \subseteq last.ev
    /\ last.board1 = last.board0

\* C5: after any sequence of stores the table holds at most MAX_TT_SIZE
\* entries and at most one entry for a key.
C5_TableBounded ==
    /\ Len(TT) <= MAX_TT_SIZE
    /\ \A i, j \in DOMAIN TT : TT[i].key = TT[j].key => i = j

\* A store of a new key into a full table.
C5_Witness ==
    /\ last.op = "tt_store"
    /\ "full" \in last.ev
    /\ ~HasKey(last.before, zobrist_hash(last.board0))
    /\ HasKey(TT, zobrist_hash(last.board0))
    /\ Len(TT) = MAX_TT_SIZE

\* C6 as stated: under the UCI loop, go depth D with D >= 0 included, every
\* entry of the table has a stored depth >= 0.
C6_StoredDepthNonNegative ==
    mode = "uci" => \A i \in DOMAIN TT : TT[i].depth >= 0

\* The entry the last tt_store call asked to write.
AskedEntry ==
    Entry(zobrist_hash(last.board0), last.args.score, last.args.depth,
          FlagOf(last.args.score, last.args.alpha0, last.args.beta), last.args.move)

\* C7: a store under a key the table holds replaces the entry by the new one
\* if and only if the new depth is at least the stored depth, and leaves it as
\* it is otherwise; the stored depth of a key that stays never decreases.
C7_DepthPreferred ==
    last.op = "tt_store" =>
        /\ HasKey(last.before, zobrist_hash(last.board0)) =>
              /\ HasKey(TT, zobrist_hash(last.board0))
              /\ Get(TT, zobrist_hash(last.board0)) =
                    IF last.args.depth >= Get(last.before, zobrist_hash(last.board0)).depth
                    THEN AskedEntry
                    ELSE Get(last.before, zobrist_hash(last.board0))
        /\ \A i \in DOMAIN last.before :
              HasKey(TT, last.before[i].key)
                  => Get(TT, last.before[i].key).depth >= last.before[i].depth

\* A store at a lower depth than the entry of its key, which left the entry
\* as it was.
C7_Witness ==
    /\ last.op = "tt_store"
    /\ HasKey(last.before, zobrist_hash(last.board0))
    /\ last.args.depth < Get(last.before, zobrist_hash(last.board0)).depth
    /\ AskedEntry # Get(last.before, zobrist_hash(last.board0))
    /\ Get(TT, zobrist_hash(last.board0)) = Get(last.before, zobrist_hash(last.board0))

\* The condition of C8 under which a probe is a hit.
Usable(entry, depth, alpha, beta) ==
    /\ entry.depth >= depth
    /\ \/ entry.flag = EXACT
       \/ entry.flag = LOWER /\ entry.score >= beta
       \/ entry.flag = UPPER /\ entry.score <= alpha

\* C8: a probe returns the stored score if and only if the position has an
\* entry at least as deep as asked whose flag is EXACT, or LOWER with a score
\* >= beta, or UPPER with a score <= alpha, and reports a miss otherwise; a
\* stored score of 0 is a hit; the probe leaves the table as it was.
C8_ProbeHitIff ==
    last.op = "tt_probe" =>
        /\ TT = last.before
        /\ last.ret.hit <=>
              /\ HasKey(TT, zobrist_hash(last.board0))
              /\ Usable(Get(TT, zobrist_hash(last.board0)), last.args.depth,
                        last.args.alpha, last.args.beta)
        /\ last.ret.hit => last.ret.score = Get(TT, zobrist_hash(last.board0)).score
        /\ ~last.ret.hit => last.ret = Miss

\* A probe answered with a stored score of 0.
C8_Witness ==
    /\ last.op = "tt_probe"
    /\ last.ret = Hit(0)
    /\ Get(TT, zobrist_hash(last.board0)).score = 0

\* C9: an entry search writes has the flag UPPER when the result is <= the
\* alpha the node was entered with, LOWER when it is >= beta, and EXACT only
\* when it lies strictly between the two.
C9_FlagAgainstEntryWindow ==
    \A rec \in last.log :
        rec.flag # -1 =>
            /\ rec.score <= rec.alpha => rec.flag = UPPER
            /\ rec.score >= rec.beta => rec.flag = LOWER
            /\ rec.flag = EXACT => (rec.alpha < rec.score /\ rec.score < rec.beta)

\* A call whose searches wrote an entry of each flag, the exact one at a node
\* entered with a finite alpha that its move loop raised.
C9_Witness ==
    /\ \E rec \in last.log : rec.flag = EXACT /\ rec.alpha > -Inf
    /\ \E rec \in last.log : rec.flag = UPPER
    /\ \E rec \in last.log : rec.flag = LOWER

\* C10: after ucinewgame the table is empty and the board is the standard
\* start; the first search of a self-play game begins with an empty table; uci,
\* isready and position leave the table as it is, and go never empties it: an
\* entry it finds is still there, or replaced under its key, unless the table
\* filled up and evicted it.
C10_TableLifecycle ==
    /\ last.op = "ucinewgame" => (TT = <<>> /\ game_board = NewBoard(StartPos))
    /\ (last.op = "selfplay_ply" /\ last.args.ply = 0) => last.before = <<>>
    /\ last.op \in {"uci", "isready", "position"} => TT = last.before
    /\ last.op = "go" =>
          /\ last.before # <<>> => TT # <<>>
          /\ \A i \in DOMAIN last.before :
                HasKey(TT, last.before[i].key) \/ Len(TT) = MAX_TT_SIZE

\* A ucinewgame read when the table held entries.
C10_Witness ==
    /\ last.op = "ucinewgame"
    /\ last.before # <<>>
    /\ TT = <<>>
    /\ game_board = NewBoard(StartPos)

\* The depth C11 gives a go line: the integer after the word depth, 3 when
\* there is none.
AskedDepth(line) ==
    IF \E i \in 1..(Len(line) - 1) : line[i] = Word("depth") /\ line[i + 1].w = "<int>"
    THEN line[(CHOOSE i \in 1..(Len(line) - 1) :
                  line[i] = Word("depth") /\ line[i + 1].w = "<int>") + 1].n
    ELSE 3

CommandWords == {"uci", "isready", "ucinewgame", "position", "go", "quit"}

\* The line the last command of the loop was read from.
LastLine == IF last.op = "go" THEN last.args.line ELSE last.args

\* The last step of the loop read a line whose first word is no command.
UnknownLine ==
    /\ mode = "uci"
    /\ last.op \in {"uci", "isready", "ucinewgame", "position", "go", "quit", "ignored"}
    /\ LastLine[1].w \notin CommandWords

\* C12 as stated: a line that is none of the commands, one that merely begins
\* with the letters of a command included, produces no output, leaves the
\* position and the table as they were and does not end the loop.
C12_UnknownIgnored ==
    UnknownLine => (out = <<>> /\ game_board = last.board0 /\ TT = last.before /\ alive)

\* The last command was a position command whose move list held a move that is
\* not legal where it was to be made.
IllegalMoveRead ==
    /\ last.op = "position"
    /\ Has(last.args, "moves")
    /\ last.ret = TRUE

\* C13 as stated: after a position command was given an illegal move, the
\* loop holds the position it held before the command and goes on reading.
C13_IllegalMoveLeavesPosition ==
    IllegalMoveRead => (game_board = last.board0 /\ alive)

(***************************************************************************)
(* The evaluator on its own: evaluate and eval_to_play applied to a board  *)
(* and to the board with the colours exchanged.  The table holds two       *)
(* positions, 0 and its mirror image 1.                                    *)
(***************************************************************************)
\* The pieces added to the two kings (on e1 and g8): pawns that are doubled,
\* isolated, passed or blocked, rooks on one rank and on open and closed
\* files, a pair of bishops.
EvalPool ==
    {<<8, "P">>, <<16, "P">>, <<35, "P">>, <<51, "p">>,
     <<0, "R">>, <<7, "R">>, <<56, "r">>, <<2, "B">>, <<5, "B">>}

Placement(extra) ==
    [s \in {4, 62} \cup {x[1] : x \in extra} |->
        IF s = 4 THEN "K" ELSE IF s = 62 THEN "k"
        ELSE (CHOOSE x \in extra : x[1] = s)[2]]

\* The positions evaluated: a placement from the pool with either side to
\* move, neither king in check and a king move at hand (the position after
\* it is not tabulated: the evaluator makes no move); and the positions of
\* the bounded game, the finished ones among them.
EvalNodes ==
    {Node(Placement(extra), t, FALSE,
          <<IF t = WHITE THEN Plain(4, 12, -1) ELSE Plain(62, 61, -1)>>) :
        extra \in SUBSET EvalPool, t \in {WHITE, BLACK}}
    \cup {Positions[p] : p \in DOMAIN Positions}

SwapCase == [P |-> "p", N |-> "n", B |-> "b", R |-> "r", Q |-> "q", K |-> "k",
             p |-> "P", n |-> "N", b |-> "B", r |-> "R", q |-> "Q", k |-> "K"]

MirrorMove(m) ==
    [from_square |-> square_mirror(m.from_square), to_square |-> square_mirror(m.to_square),
     promotion |-> m.promotion]

\* The mirror image of a position: the colours of the pieces exchanged, the
\* board reflected rank 1 to rank 8, the other side to move.
Mirror(node) ==
    [at |-> [s \in {square_mirror(t) : t \in DOMAIN node.at} |->
                SwapCase[node.at[square_mirror(s)]]],
     turn |-> ~node.turn,
     check |-> node.check,
     moves |-> [i \in DOMAIN node.moves |->
                   [node.moves[i] EXCEPT !.mv = MirrorMove(@)]]]

\* The mirror image of a board of the two-position table.
MirrorBoard(board) ==
    [pos |-> 1 - board.pos,
     stack |-> [i \in DOMAIN board.stack |->
                   [mv |-> MirrorMove(board.stack[i].mv),
                    prev |-> IF board.stack[i].prev \in {0, 1}
                             THEN 1 - board.stack[i].prev ELSE board.stack[i].prev]]]

\* A board on which position p stands for the third time: two moves out and
\* two moves back, twice.
Repeated(p) ==
    [pos |-> p,
     stack |-> <<[mv |-> NullMove, prev |-> p], [mv |-> NullMove, prev |-> -1],
                 [mv |-> NullMove, prev |-> -1], [mv |-> NullMove, prev |-> -1],
                 [mv |-> NullMove, prev |-> p], [mv |-> NullMove, prev |-> -1],
                 [mv |-> NullMove, prev |-> -1], [mv |-> NullMove, prev |-> -1]>>]

\* The boards handed to the evaluator.
EvalBoards == {NewBoard(p) : p \in {0, 1}} \cup {Repeated(0)}

Evaluate ==
    /\ mode = "eval"
    /\ \E board \in EvalBoards :
        last' = [Started("evaluate") EXCEPT
                    !.board0 = board, !.board1 = board,
                    !.ret = evaluate(board),
                    !.args = [mirrored |-> evaluate(MirrorBoard(board))]]
    /\ UNCHANGED <<chess, match, mode, game_board, TT, alive, out, sp, calls>>

EvalToPlay ==
    /\ mode = "eval"
    /\ \E board \in EvalBoards :
        last' = [Started("eval_to_play") EXCEPT
                    !.board0 = board, !.board1 = board,
                    !.ret = eval_to_play(board),
                    !.args = [evaluate |-> evaluate(board)]]
    /\ UNCHANGED <<chess, match, mode, game_board, TT, alive, out, sp, calls>>

InitEval ==
    /\ match = NoMatch
    /\ chess \in {(0 :> n @@ 1 :> Mirror(n)) : n \in EvalNodes}
    /\ mode = "eval"
    /\ game_board = NewBoard(StartPos)
    /\ TT = <<>>
    /\ alive = TRUE
    /\ out = <<>>
    /\ calls = 0
    /\ sp = NoGame
    /\ last = Started("start")

NextEval ==
    \/ Evaluate
    \/ EvalToPlay

SpecEval == InitEval /\ [][NextEval]_vars

\* C14: evaluate of a position is the negative of evaluate of its mirror
\* image, for finished games and drawn positions as for every term of the
\* score.
C14_ColourSymmetry ==
    last.op = "evaluate" => last.ret = -last.args.mirrored

\* A position with pawns and rooks for White only, to which the evaluator
\* gives a score other than 0, and the negative of it to the mirror image.
C14_Witness ==
    /\ last.op = "evaluate"
    /\ pieces(last.board0, "P", WHITE) # {}
    /\ pieces(last.board0, "R", WHITE) # {}
    /\ pieces(last.board0, "P", BLACK) = {}
    /\ last.ret > 0
    /\ last.args.mirrored = -last.ret

\* C15: eval_to_play is evaluate plus the tempo bonus when White is to move
\* and the negative of evaluate plus the tempo bonus when Black is, finished
\* games included.
C15_TempoFromMoverSide ==
    last.op = "eval_to_play" =>
        last.ret = IF turn(last.board0) = WHITE
                   THEN last.args.evaluate + TEMPO_BONUS
                   ELSE -last.args.evaluate + TEMPO_BONUS

\* Black to move and mated: the score of the mate, seen from Black, plus the
\* bonus.
C15_Witness ==
    /\ last.op = "eval_to_play"
    /\ turn(last.board0) = BLACK
    /\ is_checkmate(last.board0)
    /\ last.args.evaluate = MATE
    /\ last.ret = TEMPO_BONUS - MATE

(***************************************************************************)
(* The match harness of src/match_vs_stockfish.py: GAMES games between     *)
(* Stockfish ("sf") and this engine ("max"), each a process the harness    *)
(* asks for a move.  What an engine answers is the environment's choice:   *)
(* a legal move, no move, the null move, or nothing because the process    *)
(* has ended (EngineTerminatedError), after which it stays ended.          *)
(***************************************************************************)
\* The number of games.  The source sets 24; the model plays fewer.
GAMES == 2

\* board.is_game_over(claim_draw=True)
is_game_over_claim_draw(board) ==
    is_game_over(board) \/ can_claim_threefold_repetition(board)

\* board.result(claim_draw=True)
result_claim_draw(board) ==
    IF is_checkmate(board) THEN (IF turn(board) = WHITE THEN "0-1" ELSE "1-0")
    ELSE IF is_game_over_claim_draw(board) THEN "1/2-1/2"
    ELSE "*"

\* Line 45: Stockfish has White in the games of even index.
WhiteOf(i) == IF i % 2 = 0 THEN "sf" ELSE "max"

\* Line 70: the engine whose turn it is.
EngineToMove == IF (turn(game_board) = WHITE) = (match.white = "sf") THEN "sf" ELSE "max"

\* Lines 76-77 and 84-85: the side to move loses.
Forfeit(board) == IF turn(board) = WHITE THEN "0-1" ELSE "1-0"

\* A faulty variant of the result below: the board's result is always taken.
BoardResult(headers_result, board) == result_claim_draw(board)

\* Lines 99-100: the board's result is taken when no result was set.
FinalResult(headers_result, board) ==
    IF headers_result = "*" THEN result_claim_draw(board) ELSE headers_result

\* Lines 106-129: the tallies, by the colour this engine had.
Tallied(m, result_str) ==
    IF result_str = "1-0"
    THEN IF m.white # "max"
         THEN [m EXCEPT !.max_black_losses = @ + 1]
         ELSE [m EXCEPT !.max_white_wins = @ + 1]
    ELSE IF result_str = "0-1"
    THEN IF m.white = "max"
         THEN [m EXCEPT !.max_white_losses = @ + 1]
         ELSE [m EXCEPT !.max_black_wins = @ + 1]
    ELSE IF m.white = "max"
         THEN [m EXCEPT !.max_white_draws = @ + 1]
         ELSE [m EXCEPT !.max_black_draws = @ + 1]

\* Lines 99-131: the end of a game, however the loop was left.
GameOver(m, headers_result, termination, board) ==
    Tallied([m EXCEPT !.in_game = FALSE, !.i = @ + 1,
                      !.Result = FinalResult(headers_result, board),
                      !.Termination = termination],
            FinalResult(headers_result, board))

Matching == mode = "match" /\ match.in_game /\ ~is_game_over_claim_draw(game_board)

MatchDid(op, engine) ==
    [Started(op) EXCEPT !.args = engine, !.board0 = game_board, !.board1 = game_board']

\* Lines 43-67: a game begins.
MatchStart ==
    /\ mode = "match"
    /\ ~match.in_game
    /\ match.i < GAMES
    /\ game_board' = NewBoard(StartPos)
    /\ match' = [match EXCEPT !.in_game = TRUE, !.white = WhiteOf(match.i),
                              !.Result = "*", !.Termination = "-"]
    /\ last' = MatchDid("match_start", "-")
    /\ UNCHANGED <<chess, mode, TT, alive, out, sp, calls>>

\* Lines 73-81: the engine to move has ended or ends now.
MatchCrash ==
    /\ Matching
    /\ game_board' = game_board
    /\ match' = GameOver([match EXCEPT !.dead = @ \cup {EngineToMove}],
                         Forfeit(game_board), "abandoned", game_board)
    /\ last' = MatchDid("match_crash", EngineToMove)
    /\ UNCHANGED <<chess, mode, TT, alive, out, sp, calls>>

\* Lines 83-90: the engine answers with no move or the null move.
MatchResign ==
    /\ Matching
    /\ EngineToMove \notin match.dead
    /\ game_board' = game_board
    /\ \E answer \in {NoMove, NullMove} :
        last' = [MatchDid("match_resign", EngineToMove) EXCEPT !.ret = answer]
    /\ match' = GameOver(match, Forfeit(game_board), "resignation", game_board)
    /\ UNCHANGED <<chess, mode, TT, alive, out, sp, calls>>

\* Lines 92-97: the engine answers with a legal move.
MatchMove ==
    /\ Matching
    /\ EngineToMove \notin match.dead
    /\ \E i \in DOMAIN legal_moves(game_board) :
        /\ game_board' = push(game_board, legal_moves(game_board)[i].mv)
        /\ last' = [MatchDid("match_move", EngineToMove) EXCEPT
                       !.ret = legal_moves(game_board)[i].mv]
    /\ UNCHANGED <<chess, mode, TT, alive, out, sp, match, calls>>

\* Lines 69 and 99-131: the game is over on the board.
MatchEnd ==
    /\ mode = "match"
    /\ match.in_game
    /\ is_game_over_claim_draw(game_board)
    /\ game_board' = game_board
    /\ match' = GameOver(match, "*", "-", game_board)
    /\ last' = MatchDid("match_end", "-")
    /\ UNCHANGED <<chess, mode, TT, alive, out, sp, calls>>

InitMatch ==
    /\ chess = Positions
    /\ mode = "match"
    /\ game_board = NewBoard(StartPos)
    /\ TT = <<>>
    /\ alive = TRUE
    /\ out = <<>>
    /\ calls = 0
    /\ sp = NoGame
    /\ match = NoMatch
    /\ last = Started("start")

NextMatch ==
    \/ MatchStart
    \/ MatchCrash
    \/ MatchResign
    \/ MatchMove
    \/ MatchEnd

SpecMatch == InitMatch /\ [][NextMatch]_vars

\* C16: when the engine to move ends, or answers with no move or the null
\* move, the game ends at once with no move pushed, the Result header is the
\* win of the other colour, the Termination header names the reason, and the
\* Result is not replaced by the board's result.
C16_ForfeitEndsGame ==
    last.op \in {"match_crash", "match_resign"} =>
        /\ ~match.in_game
        /\ game_board = last.board0
        /\ match.Result = IF turn(last.board0) = WHITE THEN "0-1" ELSE "1-0"
        /\ match.Termination =
              IF last.op = "match_crash" THEN "abandoned" ELSE "resignation"
        /\ match.Result # result_claim_draw(game_board)

\* This engine, with Black in the first game, answers the null move after
\* moves were made: White wins by resignation.
C16_Witness ==
    /\ last.op = "match_resign"
    /\ last.args = "max"
    /\ last.ret = NullMove
    /\ last.board0.stack # <<>>
    /\ turn(last.board0) = BLACK
    /\ match.Result = "1-0"
    /\ match.Termination = "resignation"
    /\ match.max_black_losses = 1

\* The keys of a table in the order the table keeps them.
KeysOf(tt) == [i \in DOMAIN tt |-> tt[i].key]

\* C17: the table keeps its keys in the order of their first insertion.  A
\* store under a key the table holds removes nothing and moves no key; a store
\* of a new key into a full table removes exactly the first key of that order
\* and puts the new key last; below capacity nothing is removed.
C17_FifoEviction ==
    [][(mode = "tt" /\ last'.op = "tt_store") =>
        IF HasKey(TT, zobrist_hash(last'.board0))
        THEN KeysOf(TT') = KeysOf(TT)
        ELSE IF Len(TT) >= MAX_TT_SIZE
        THEN /\ Len(TT') = Len(TT)
             /\ SubSeq(TT', 1, Len(TT) - 1) = Tail(TT)
             /\ TT'[Len(TT')].key = zobrist_hash(last'.board0)
        ELSE /\ Len(TT') = Len(TT) + 1
             /\ SubSeq(TT', 1, Len(TT)) = TT
             /\ TT'[Len(TT')].key = zobrist_hash(last'.board0)]_vars

\* A new key stored at depth 1 into a full table: the table is still full, the
\* new key is last, and the entries before it are the depth-1 entries that
\* were stored after the one removed.
C17_Witness ==
    /\ last.op = "tt_store"
    /\ "full" \in last.ev
    /\ last.before = <<>>
    /\ Len(TT) = MAX_TT_SIZE
    /\ TT[Len(TT)].key = zobrist_hash(last.board0)
    /\ TT[Len(TT)].depth = 1
    /\ \A i \in 1..(Len(TT) - 1) : TT[i].depth = 1

\* The place of a legal move in the order the move generator produces.
GeneratorIndex(board, m) ==
    CHOOSE i \in DOMAIN legal_moves(board) : legal_moves(board)[i].mv = m

\* The moves C18 leaves out: checks that neither capture nor promote and land
\* on a square the opponent attacks and the mover does not defend.
HangingCheck(board, m) ==
    /\ gives_check(board, m)
    /\ ~is_capture(board, m)
    /\ m.promotion = "-"
    /\ LegalEntry(board, m).opp_att
    /\ ~LegalEntry(board, m).own_att

\* The heuristic score of a move in the last ordered_moves call.
LastScore(m) == MoveScore(last.board0, m, tt_move_of(last.before, last.board0))

\* C18: ordered_moves returns every legal move that is not a hanging check,
\* each once, in non-increasing order of score, moves of equal score in the
\* order of the move generator.
C18_OrderedMoves ==
    last.op = "ordered_moves" =>
        /\ \A i, j \in DOMAIN last.ret : last.ret[i] = last.ret[j] => i = j
        /\ {last.ret[i] : i \in DOMAIN last.ret} =
              {legal_moves(last.board0)[i].mv : i \in DOMAIN legal_moves(last.board0)}
              \ {m \in {legal_moves(last.board0)[i].mv :
                            i \in DOMAIN legal_moves(last.board0)} :
                    HangingCheck(last.board0, m)}
        /\ \A i, j \in DOMAIN last.ret :
              i < j =>
                 /\ LastScore(last.ret[i]) >= LastScore(last.ret[j])
                 /\ LastScore(last.ret[i]) = LastScore(last.ret[j]) =>
                       GeneratorIndex(last.board0, last.ret[i])
                          < GeneratorIndex(last.board0, last.ret[j])

\* A call that dropped a hanging check and returned two checks of equal score
\* ahead of a quiet move that the generator produced before them.
C18_Witness ==
    /\ last.op = "ordered_moves"
    /\ "hanging" \in last.ev
    /\ Len(last.ret) = 3
    /\ LastScore(last.ret[1]) = LastScore(last.ret[2])
    /\ LastScore(last.ret[2]) > LastScore(last.ret[3])
    /\ GeneratorIndex(last.board0, last.ret[3]) < GeneratorIndex(last.board0, last.ret[1])

\* C19: ordered_moves leaves the table as it found it and the board in the
\* position and with the move stack it was called with, whether or not it
\* made and took back a move to look at a check.
C19_OrdererReadsOnly ==
    last.op = "ordered_moves" =>
        /\ TT = last.before
        /\ last.board1 = last.board0
        /\ game_board = last.board0

\* A call on a table that holds entries, in a position where a check was made
\* on the board, found hanging and taken back.
C19_Witness ==
    /\ last.op = "ordered_moves"
    /\ last.before # <<>>
    /\ HasKey(last.before, zobrist_hash(last.board0))
    /\ "hanging" \in last.ev
    /\ TT = last.before
    /\ last.board1 = last.board0

(***************************************************************************)
(* Quiescence, node by node.                                               *)
(***************************************************************************)
\* The boards the last call ran qsearch's move loop or stand-pat on.
QNodes == {r.board : r \in last.qlog}

\* The moves qsearch recursed on at a board.
QRecursed(board) ==
    {r.mv : r \in {x \in last.qlog : x.board = board /\ x.kind # "stand_pat"}}

\* Whether qsearch took the static value at a board.
QStoodPat(board) == \E r \in last.qlog : r.board = board /\ r.kind = "stand_pat"

\* The first k legal moves of a board, in the generator's order.
LegalPrefix(board, k) == {legal_moves(board)[i].mv : i \in 1..k}

QTerminal(board) ==
    \/ is_checkmate(board)
    \/ is_stalemate(board)
    \/ is_insufficient_material(board)
    \/ can_claim_threefold_repetition(board)

QTactical(board, m) == is_capture(board, m) \/ m.promotion # "-"

SearchingOps ==
    {"start", "search", "best_move", "qsearch", "ordered_moves", "white_eval_after_move"}

\* What the call returns on an empty table.
FreshResult(l) ==
    IF l.op = "search" THEN search(State(l.board0, <<>>), l.args.depth, -Inf, Inf).ret
    ELSE best_move(State(l.board0, <<>>), l.args.depth).ret

\* best_move, or search with the full window, to a depth of at least 1.
AskedInFull(l) ==
    /\ l.op \in {"search", "best_move"}
    /\ l.args.depth >= 1
    /\ l.op = "search" => (l.args.alpha = -Inf /\ l.args.beta = Inf)

\* C21 as stated: best_move and full-window search to a depth of at least 1
\* return, on the table an earlier search of the game left (to any depth,
\* under any window), the move and score they return on an empty table.
C21_ReuseTransparent ==
    [][(/\ mode = "api"
        /\ calls <= 1
        /\ last.op \in SearchingOps
        /\ AskedInFull(last'))
       => last'.ret = FreshResult(last')]_vars

\* C22 as stated: in a position that has a legal move, go to a depth of at
\* least 1 is answered with a move, never with the null move, because
\* best_move returns a move there.
C22_NoMoveOnlyWithoutLegalMoves ==
    (/\ last.op = "go"
     /\ last.args.depth >= 1
     /\ legal_moves(last.board0) # <<>>)
        => /\ last.ret.move # NoMove
           /\ out # <<[text |-> "bestmove", m |-> NullMove]>>

(***************************************************************************)
(* The infinities of the window.                                           *)
(***************************************************************************)
\* The scores a search may return or store.
FiniteScores == (-MATE)..MATE

\* C23: -inf and +inf are bounds of the window and the initial best value of
\* a node only.  Every value qsearch and search return, at the root of a call
\* and at every node under it, and every score the transposition table holds
\* or a search stored, is an integer in [-99999, 99999], under the full
\* window as under a narrow one.
C23_InfinitiesStayInside ==
    mode = "api"
        => /\ last.op \in {"search", "qsearch"} => last.ret \in FiniteScores
           /\ "escaped" \notin last.ev
           /\ \A l \in last.log : l.score \in FiniteScores
           /\ \A i \in DOMAIN TT : TT[i].score \in FiniteScores

\* A search under the full window in which no move was searched at the root:
\* best was still -inf after the loop, and the static value of the position
\* was stored and returned in its place.
C23_Witness ==
    /\ last.op = "search"
    /\ last.args.depth >= 1
    /\ last.args.alpha = -Inf
    /\ last.args.beta = Inf
    /\ "fallback" \in last.ev
    /\ last.ret \in FiniteScores
    /\ \E l \in last.log : l.alpha = -Inf /\ l.beta = Inf /\ l.score = last.ret
====
